---- MODULE Spec2Model ----
(***************************************************************************)
(* A2A JSON-RPC task dispatcher (life-sync and orchestrator servers) and   *)
(* the orchestrator's A2A client, modelled from                            *)
(*   src/a2a-with-agentcore/agents/life-sync/src/a2a/server.py             *)
(*   src/a2a-with-agentcore/agents/orchestrator/a2a/server.py              *)
(*   src/a2a-with-agentcore/agents/orchestrator/a2a/client.py              *)
(*   src/a2a-with-agentcore/agents/life-sync/src/a2a/types.py              *)
(***************************************************************************)
EXTENDS Integers, Sequences, FiniteSets, TLC

(***************************************************************************)
(* Bounds of the model.                                                    *)
(***************************************************************************)
\* tasks/send requests received by one server process
MaxReqs == 2
\* chunks one streaming skill run may yield
MaxChunks == 3
\* largest retry_config.max_attempts a client is built with
MaxAttemptsBound == 6
\* tasks/send requests received when every kind of POST / body is considered
MaxRpcReqs == 1
\* parts of a Message that is encoded, decoded and read
MaxParts == 3

TaskIds == {"X", "Y"}
Agents == {"life-sync", "orchestrator"}

(***************************************************************************)
(* types.py: TaskStatus, ErrorCode.                                        *)
(***************************************************************************)
PENDING == "pending"
WORKING == "working"
COMPLETED == "completed"
FAILED == "failed"
CANCELED == "canceled"
TaskStatus == {PENDING, WORKING, COMPLETED, FAILED, CANCELED}
Terminal == {COMPLETED, FAILED, CANCELED}

METHOD_NOT_FOUND == -32601
INTERNAL_ERROR == -32603
TASK_NOT_FOUND == -32000
AGENT_UNAVAILABLE == -32001

(***************************************************************************)
(* JSON values carried by a MessagePart.  A text is absent (None), a       *)
(* string (a sequence of characters) or a JSON number; a data payload is   *)
(* absent or one of a few named JSON values.                               *)
(***************************************************************************)
TextNone == [k |-> "none", v |-> <<>>]
Str(s) == [k |-> "str", v |-> s]
Num7 == [k |-> "num", v |-> <<>>]

\* named data payloads: d_plan = {"workout": {"name": ...}},
\* d_badplan = {"workout": "legs"}, d_loc = {"location": "gym"}
DataNone == "none"
DataValues == {"d_plan", "d_badplan", "d_loc"}
\* "workout" in part.data
HasWorkout(d) == d \in {"d_plan", "d_badplan"}
\* part.data["workout"] is a JSON object, so that .get works on it
WorkoutIsDict(d) == d = "d_plan"

MessagePart(type, text, data) == [type |-> type, text |-> text, data |-> data]
TextPart(s) == MessagePart("text", Str(s), DataNone)
DataPart(d) == MessagePart("data", TextNone, d)
Message(role, parts) == [role |-> role, parts |-> parts]

\* bool(p.text): None, "" and 0 are falsy
Truthy(t) == \/ t.k = "num"
             \/ t.k = "str" /\ Len(t.v) > 0

RECURSIVE JoinTextsNoSpace(_)
\* (mutation) the texts are concatenated with nothing between them
JoinTextsNoSpace(ts) ==
    IF Len(ts) = 0 THEN <<>> ELSE ts[1] \o JoinTextsNoSpace(Tail(ts))
RECURSIVE JoinTexts(_)
\* " ".join(ts) for a sequence of strings
JoinTexts(ts) ==
    IF Len(ts) = 0 THEN <<>>
    ELSE IF Len(ts) = 1 THEN ts[1]
    ELSE ts[1] \o <<" ">> \o JoinTexts(Tail(ts))

RECURSIVE TruthyTexts(_)
TruthyTexts(parts) ==
    IF Len(parts) = 0 THEN <<>>
    ELSE IF Truthy(parts[1].text)
         THEN <<parts[1].text>> \o TruthyTexts(Tail(parts))
         ELSE TruthyTexts(Tail(parts))

\* Message.get_text: raises TypeError when a truthy text is not a string
GetTextRaises(m) == \E i \in 1..Len(TruthyTexts(m.parts)) : TruthyTexts(m.parts)[i].k # "str"
GetText(m) == JoinTexts([i \in 1..Len(TruthyTexts(m.parts)) |-> TruthyTexts(m.parts)[i].v])

\* the loop over task.message.parts of life-sync's handlers: WorkoutPlan.from_dict
\* raises AttributeError on a "workout" value that is not an object
PartsLoopRaises(m) ==
    \E i \in 1..Len(m.parts) :
        /\ m.parts[i].data # DataNone
        /\ HasWorkout(m.parts[i].data)
        /\ ~WorkoutIsDict(m.parts[i].data)

\* request messages the model sends
Messages ==
    { Message("user", <<TextPart(<<"A">>), DataPart("d_plan")>>),
      Message("user", <<DataPart("d_badplan")>>),
      Message("user", <<MessagePart("text", Num7, DataNone)>>) }


(***************************************************************************)
(* State.                                                                  *)
(***************************************************************************)
VARIABLES
    agent,      \* which server process this is: "life-sync" or "orchestrator"
    heap,       \* the Task objects handle_task_send has constructed, by request
    tasks,      \* server.py `tasks`: task id -> reference into heap (0: no key)
    nreq,       \* tasks/send requests received so far
    pc,         \* per tasks/send request: "idle", "skill" (awaiting the skill), "done"
    rpcid,      \* per tasks/send request: the JSON-RPC id of the request
    alone,      \* per tasks/send request: no other request on its id since it began
    last,       \* the HTTP response produced last
    stream,     \* the tasks/sendSubscribe generator: position, task, events emitted
    call,       \* one A2AClient.send_task call: configuration, attempts, outcome
    tool,       \* the tool-call adapter being run: its position, its value or exception
    codec       \* one Message taken through to_dict, from_dict and get_text

vars == <<agent, heap, tasks, nreq, pc, rpcid, alone, last, stream, call, tool, codec>>
serverVars == <<agent, heap, tasks, nreq, pc, rpcid, alone, last>>

Reqs == 1..MaxReqs
RpcIds == {"q1"}

\* types.py Task: id, message, status, result (None is <<>>, a Message m is <<m>>)
Task(id, message, status, result) ==
    [id |-> id, message |-> message, status |-> status, result |-> result]
NoTask == Task("", Message("", <<>>), "", <<>>)

\* types.py JsonRpcResponse: result and error are None (<<>>) or a dict (<<d>>)
JsonRpcResponse(id, result, error) == [id |-> id, result |-> result, error |-> error]
\* (mutation) to_dict writes result and error whether they are None or not
ToDictKeysUnfiltered(resp) == {"jsonrpc", "id", "result", "error"}
\* JsonRpcResponse.to_dict: the keys of the JSON object sent
ToDictKeys(resp) ==
    {"jsonrpc", "id"} \cup (IF resp.result # <<>> THEN {"result"} ELSE {})
                      \cup (IF resp.error # <<>> THEN {"error"} ELSE {})
ResultDict(taskId, status, hasResult, result) ==
    [taskId |-> taskId, status |-> status, hasResult |-> hasResult, result |-> result]
ErrorDict(code, message) == [code |-> code, message |-> message]

HttpResponse(op, taskId, status, body) ==
    [op |-> op, taskId |-> taskId, http |-> status, body |-> body]
NoResponse == HttpResponse("none", "", 0, JsonRpcResponse("", <<>>, <<>>))

\* the status tasks/get would report for id ("absent": no such key)
StatusOf(id) == IF tasks[id] = 0 THEN "absent" ELSE heap[tasks[id]].status
ResultOf(id) == IF tasks[id] = 0 THEN <<>> ELSE heap[tasks[id]].result

\* what the skills return and raise
SkillOutputs == {"r1", "r2"}
SkillErrors == {"boom"}

\* life-sync: [text recommendation, data analysis.to_dict()];
\* orchestrator: [text str(result)] (the model's answer carries no ```json block)
ResultMessage(a, out) ==
    IF a = "life-sync"
    THEN Message("assistant", <<TextPart(<<out>>), DataPart("d_analysis")>>)
    ELSE Message("assistant", <<TextPart(<<out>>)>>)

\* (mutation) a fixed message that does not carry the exception's text
ErrorMessageGeneric(a, e) == <<"Internal error">>
\* life-sync: str(e); orchestrator: "<type>: <str(e)>\n\nThis error occurred ..."
ErrorMessage(a, e) ==
    IF a = "life-sync" THEN <<e>>
    ELSE <<"Exception", ": ", e, "\n\nThis error occurred while processing your workout request. ">>

\* every other in-flight tasks/send on id has now seen another request on id
Touch(id, self) ==
    [r \in Reqs |-> IF r # self /\ pc[r] = "skill" /\ heap[r].id = id THEN FALSE ELSE alone[r]]


(***************************************************************************)
(* types.py: MessagePart.to_dict / from_dict, Message.to_dict / from_dict. *)
(* A dict is modelled by the set of its keys and the values under them.    *)
(***************************************************************************)
\* (mutation) a text or data that is falsy ("" or {}) is left out, as `if self.text:`
PartToDictTruthy(p) ==
    [keys |-> {"type"} \cup (IF Truthy(p.text) THEN {"text"} ELSE {})
                       \cup (IF p.data # DataNone THEN {"data"} ELSE {}),
     type |-> p.type, text |-> p.text, data |-> p.data]
\* MessagePart.to_dict: "text" and "data" are written when they are not None
PartToDict(p) ==
    [keys |-> {"type"} \cup (IF p.text.k # "none" THEN {"text"} ELSE {})
                       \cup (IF p.data # DataNone THEN {"data"} ELSE {}),
     type |-> p.type, text |-> p.text, data |-> p.data]
PartFromDict(d) ==
    MessagePart(d.type,
                IF "text" \in d.keys THEN d.text ELSE TextNone,
                IF "data" \in d.keys THEN d.data ELSE DataNone)
MessageToDict(m) ==
    [role |-> m.role, parts |-> [i \in 1..Len(m.parts) |-> PartToDict(m.parts[i])]]
MessageFromDict(d) ==
    Message(d.role, [i \in 1..Len(d.parts) |-> PartFromDict(d.parts[i])])

(***************************************************************************)
(* server.py: the JSON-RPC handlers.  A handler runs without interruption  *)
(* up to its await; handle_task_send awaits the skill exactly once.        *)
(***************************************************************************)

\* what handle_task_send raises between storing the task and entering its try
PreTryRaises(a, m) ==
    \/ GetTextRaises(m)
    \/ a = "life-sync" /\ PartsLoopRaises(m)

\* tasks/send, from the request's arrival to the await of the skill.  An exception
\* raised before the try leaves through root_post's handler: HTTP 500.
HandleTaskSend(id, m, q) ==
    /\ nreq < MaxReqs
    /\ LET r == nreq + 1 IN
        /\ nreq' = r
        /\ heap' = [heap EXCEPT ![r] = Task(id, m, WORKING, <<>>)]
        /\ tasks' = [tasks EXCEPT ![id] = r]
        /\ rpcid' = [rpcid EXCEPT ![r] = q]
        /\ alone' = [Touch(id, r) EXCEPT ![r] = TRUE]
        /\ IF PreTryRaises(agent, m)
           THEN /\ pc' = [pc EXCEPT ![r] = "done"]
                /\ last' = HttpResponse("tasks/send", id, 500,
                              JsonRpcResponse(q, <<>>,
                                  <<ErrorDict(INTERNAL_ERROR, <<"TypeError">>)>>))
           ELSE /\ pc' = [pc EXCEPT ![r] = "skill"]
                /\ last' = last
    /\ UNCHANGED <<agent, stream, call, tool, codec>>

\* (mutation) the task is left as it was when the skill has returned
CompletedStatusKept(old) == old
\* the status handle_task_send writes when the skill has returned
CompletedStatus(old) == COMPLETED

\* (mutation) the status is written and the handler is suspended before the result is
SkillReturnsStatusOnly(r, out) ==
    /\ pc[r] = "skill"
    /\ LET task == [heap[r] EXCEPT !.status = CompletedStatus(heap[r].status)] IN
        /\ heap' = [heap EXCEPT ![r] = task]
        /\ tasks' = [tasks EXCEPT ![task.id] = r]
        /\ last' = HttpResponse("tasks/send", task.id, 200,
                      JsonRpcResponse(rpcid[r],
                          <<ResultDict(task.id, task.status, TRUE,
                                       <<MessageToDict(ResultMessage(agent, out))>>)>>,
                          <<>>))
        /\ alone' = Touch(task.id, r)
    /\ pc' = [pc EXCEPT ![r] = "done"]
    /\ UNCHANGED <<agent, nreq, rpcid, stream, call, tool, codec>>
\* the skill returns out: the rest of the try block of handle_task_send
SkillReturns(r, out) ==
    /\ pc[r] = "skill"
    /\ LET task == [heap[r] EXCEPT !.status = CompletedStatus(heap[r].status),
                                   !.result = <<ResultMessage(agent, out)>>]
       IN
        /\ heap' = [heap EXCEPT ![r] = task]
        /\ tasks' = [tasks EXCEPT ![task.id] = r]
        /\ last' = HttpResponse("tasks/send", task.id, 200,
                      JsonRpcResponse(rpcid[r],
                          <<ResultDict(task.id, task.status, TRUE,
                                       <<MessageToDict(ResultMessage(agent, out))>>)>>,
                          <<>>))
        /\ alone' = Touch(task.id, r)
    /\ pc' = [pc EXCEPT ![r] = "done"]
    /\ UNCHANGED <<agent, nreq, rpcid, stream, call, tool, codec>>

\* the skill (or the code after it inside the try) raises e: the except block
SkillRaises(r, e) ==
    /\ pc[r] = "skill"
    /\ LET task == [heap[r] EXCEPT !.status = FAILED] IN
        /\ heap' = [heap EXCEPT ![r] = task]
        /\ tasks' = [tasks EXCEPT ![task.id] = r]
        /\ last' = HttpResponse("tasks/send", task.id, 200,
                      JsonRpcResponse(rpcid[r], <<>>,
                          <<ErrorDict(INTERNAL_ERROR, ErrorMessage(agent, e))>>))
        /\ alone' = Touch(task.id, r)
    /\ pc' = [pc EXCEPT ![r] = "done"]
    /\ UNCHANGED <<agent, nreq, rpcid, stream, call, tool, codec>>

\* (mutation) an unknown id is reported with the internal-error code
TaskNotFoundAsInternal(op, id, q) ==
    HttpResponse(op, id, 200,
        JsonRpcResponse(q, <<>>, <<ErrorDict(INTERNAL_ERROR, <<"Task not found: ", id>>)>>))
\* the answer of tasks/get and tasks/cancel to an id that is not a key of `tasks`
TaskNotFound(op, id, q) ==
    HttpResponse(op, id, 200,
        JsonRpcResponse(q, <<>>, <<ErrorDict(TASK_NOT_FOUND, <<"Task not found: ", id>>)>>))

\* (mutation) tasks/get takes the task out of the store (tasks.pop)
HandleTaskGetPop(id, q) ==
    /\ last' = IF tasks[id] = 0
               THEN TaskNotFound("tasks/get", id, q)
               ELSE HttpResponse("tasks/get", id, 200,
                        JsonRpcResponse(q,
                            <<ResultDict(heap[tasks[id]].id, heap[tasks[id]].status, TRUE,
                                IF heap[tasks[id]].result # <<>>
                                THEN <<MessageToDict(heap[tasks[id]].result[1])>>
                                ELSE <<>>)>>,
                            <<>>))
    /\ tasks' = [tasks EXCEPT ![id] = 0]
    /\ alone' = Touch(id, 0)
    /\ UNCHANGED <<agent, heap, nreq, pc, rpcid, stream, call, tool, codec>>
\* tasks/get
HandleTaskGet(id, q) ==
    /\ last' = IF tasks[id] = 0
               THEN TaskNotFound("tasks/get", id, q)
               ELSE HttpResponse("tasks/get", id, 200,
                        JsonRpcResponse(q,
                            <<ResultDict(heap[tasks[id]].id, heap[tasks[id]].status, TRUE,
                                IF heap[tasks[id]].result # <<>>
                                THEN <<MessageToDict(heap[tasks[id]].result[1])>>
                                ELSE <<>>)>>,
                            <<>>))
    /\ alone' = Touch(id, 0)
    /\ UNCHANGED <<agent, heap, tasks, nreq, pc, rpcid, stream, call, tool, codec>>

\* (mutation) tasks/cancel leaves the stored status as it is
CancelStatusKept(old) == old
\* the status handle_task_cancel writes over the stored one
CancelStatus(old) == CANCELED

\* (mutation) tasks/cancel cancels every stored task
HandleTaskCancelAll(id, q) ==
    /\ IF tasks[id] = 0
       THEN /\ last' = TaskNotFound("tasks/cancel", id, q)
            /\ heap' = heap
       ELSE /\ heap' = [r \in Reqs |->
                          IF \E i \in TaskIds : tasks[i] = r
                          THEN [heap[r] EXCEPT !.status = CancelStatus(@)]
                          ELSE heap[r]]
            /\ last' = HttpResponse("tasks/cancel", id, 200,
                          JsonRpcResponse(q,
                              <<ResultDict(heap[tasks[id]].id, CANCELED, FALSE, <<>>)>>,
                              <<>>))
    /\ alone' = Touch(id, 0)
    /\ UNCHANGED <<agent, tasks, nreq, pc, rpcid, stream, call, tool, codec>>
\* tasks/cancel: the stored Task object itself is changed, whoever else holds it
HandleTaskCancel(id, q) ==
    /\ IF tasks[id] = 0
       THEN /\ last' = TaskNotFound("tasks/cancel", id, q)
            /\ heap' = heap
       ELSE /\ heap' = [heap EXCEPT ![tasks[id]].status = CancelStatus(@)]
            /\ last' = HttpResponse("tasks/cancel", id, 200,
                          JsonRpcResponse(q,
                              <<ResultDict(heap[tasks[id]].id, CANCELED, FALSE, <<>>)>>,
                              <<>>))
    /\ alone' = Touch(id, 0)
    /\ UNCHANGED <<agent, tasks, nreq, pc, rpcid, stream, call, tool, codec>>

\* handle_rpc_request's table of handlers
MethodHandlers == {"tasks/send", "tasks/get", "tasks/cancel"}
Methods == MethodHandlers \cup {"tasks/sendSubscribe", "unknown/x"}

\* (mutation) an unknown method is reported as an internal error
MethodNotFoundAsInternal(method, q) ==
    HttpResponse("unknown-method", "", 200,
        JsonRpcResponse(q, <<>>, <<ErrorDict(INTERNAL_ERROR, <<"Method not found: ", method>>)>>))
MethodNotFound(method, q) ==
    HttpResponse("unknown-method", "", 200,
        JsonRpcResponse(q, <<>>, <<ErrorDict(METHOD_NOT_FOUND, <<"Method not found: ", method>>)>>))

\* handle_rpc_request for a method that has no handler (root_post has taken
\* tasks/sendSubscribe before)
HandleRpcRequest(method, q) ==
    /\ method # "tasks/sendSubscribe"
    /\ method \notin MethodHandlers
    /\ last' = MethodNotFound(method, q)
    /\ UNCHANGED <<agent, heap, tasks, nreq, pc, rpcid, alone, stream, call, tool, codec>>

\* root_post on a well-formed tasks/send body, while the bound on requests allows
RootPostSend(id, m, q) ==
    /\ nreq < MaxRpcReqs
    /\ HandleTaskSend(id, m, q)

\* POST / bodies that root_post cannot turn into a JsonRpcRequest: not JSON at all,
\* a JSON value that is not an object, an object without "id", one without "method"
MalformedBodies == {"invalid-json", "not-object", "no-id", "no-method"}
\* 'body' in locals(): request.json() has returned
BodyBound(body) == body # "invalid-json"
\* body.get(...) raises AttributeError: lists, strings, numbers, null have no get
BodyGetRaises(body) == body = "not-object"
\* what request.json() / JsonRpcRequest.from_dict raise
MalformedError(body) ==
    CASE body = "invalid-json" -> <<"JSONDecodeError">>
      [] body = "not-object" -> <<"AttributeError: no attribute 'get'">>
      [] body = "no-id" -> <<"KeyError: 'id'">>
      [] OTHER -> <<"KeyError: 'method'">>
\* body.get("id", "unknown") if 'body' in locals() else "unknown"
RecoveredId(body, q) == IF BodyBound(body) /\ body # "no-id" THEN q ELSE "unknown"

\* an exception that leaves root_post: the framework's own 500, no JSON-RPC body
Unhandled == HttpResponse("unhandled", "", 500, JsonRpcResponse("", <<>>, <<>>))

\* root_post on a malformed body: the except block, whose own body.get may raise
RootPostMalformed(body, q) ==
    /\ last' = IF BodyBound(body) /\ BodyGetRaises(body)
               THEN Unhandled
               ELSE HttpResponse("malformed", "", 500,
                        JsonRpcResponse(RecoveredId(body, q), <<>>,
                            <<ErrorDict(INTERNAL_ERROR, MalformedError(body))>>))
    /\ UNCHANGED <<agent, heap, tasks, nreq, pc, rpcid, alone, stream, call, tool, codec>>


(***************************************************************************)
(* server.py stream_task: the generator behind tasks/sendSubscribe.  One   *)
(* action per resumption of the generator, up to its next yield.  It never *)
(* reads or writes `tasks`.                                                *)
(***************************************************************************)
Event(name, taskId, status, payload) ==
    [event |-> name, taskId |-> taskId, status |-> status, payload |-> payload]

\* the chunks of text stream_validation yields
Chunks == {<<"foo">>, <<"bar">>}

NoStream == [pc |-> "closed", wellFormed |-> TRUE, id |-> "", message |-> Message("", <<>>),
             events |-> <<>>, full_content |-> <<>>, nchunks |-> 0]

\* the generator stops: normally ("end") or by an exception leaving it ("crashed")
StreamStop(how) == [stream EXCEPT !.pc = how]
Emit(ev, next) == [stream EXCEPT !.events = Append(@, ev), !.pc = next]

\* root_post: method tasks/sendSubscribe, the EventSourceResponse is returned
\* around a generator that has not run yet.  wf: params.task has id and message.
StreamOpen(wf, id, m) ==
    /\ stream.pc = "closed"
    /\ stream' = [NoStream EXCEPT !.pc = "open", !.wellFormed = wf,
                                  !.id = IF wf THEN id ELSE "",
                                  !.message = IF wf THEN m ELSE Message("", <<>>)]
    /\ UNCHANGED <<serverVars, call, tool, codec>>

\* Task.from_dict (KeyError on missing keys), then the first task-status
StreamFirstStatus ==
    /\ stream.pc = "open"
    /\ stream' = IF ~stream.wellFormed
                 THEN StreamStop("crashed")
                 ELSE Emit(Event("task-status", stream.id, WORKING, <<"first">>), "s1")
    /\ UNCHANGED <<serverVars, call, tool, codec>>

\* get_text and (life-sync) the parts loop, outside the try; the second task-status
StreamSecondStatus ==
    /\ stream.pc = "s1"
    /\ stream' = IF PreTryRaises(agent, stream.message)
                 THEN StreamStop("crashed")
                 ELSE Emit(Event("task-status", stream.id, WORKING, <<"second">>), "try")
    /\ UNCHANGED <<serverVars, call, tool, codec>>

\* (mutation) the chunk is put in front of the text gathered so far
StreamChunkPrepend(c) ==
    /\ agent = "life-sync"
    /\ stream.pc = "try"
    /\ stream.nchunks < MaxChunks
    /\ stream' = [Emit(Event("task-chunk", stream.id, "", c), "try")
                    EXCEPT !.full_content = c \o @, !.nchunks = @ + 1]
    /\ UNCHANGED <<serverVars, call, tool, codec>>
\* life-sync: stream_validation yields one more chunk
StreamChunk(c) ==
    /\ agent = "life-sync"
    /\ stream.pc = "try"
    /\ stream.nchunks < MaxChunks
    /\ stream' = [Emit(Event("task-chunk", stream.id, "", c), "try")
                    EXCEPT !.full_content = @ \o c, !.nchunks = @ + 1]
    /\ UNCHANGED <<serverVars, call, tool, codec>>

\* life-sync: stream_validation is exhausted: task-result, and the generator ends
StreamResult ==
    /\ agent = "life-sync"
    /\ stream.pc = "try"
    /\ stream' = Emit(Event("task-result", stream.id, COMPLETED, stream.full_content), "end")
    /\ UNCHANGED <<serverVars, call, tool, codec>>

\* orchestrator: the agent run returns out: a third task-status
StreamThirdStatus(out) ==
    /\ agent = "orchestrator"
    /\ stream.pc = "try"
    /\ stream' = [Emit(Event("task-status", stream.id, WORKING, <<"third">>), "s3")
                    EXCEPT !.full_content = <<out>>]
    /\ UNCHANGED <<serverVars, call, tool, codec>>

\* orchestrator: task-result with str(result), and the generator ends
StreamAgentResult ==
    /\ agent = "orchestrator"
    /\ stream.pc = "s3"
    /\ stream' = Emit(Event("task-result", stream.id, COMPLETED, stream.full_content), "end")
    /\ UNCHANGED <<serverVars, call, tool, codec>>

\* the skill raises inside the try: task-error, and the generator ends
StreamError(e) ==
    /\ stream.pc = "try"
    /\ stream' = Emit(Event("task-error", stream.id, FAILED, <<e>>), "end")
    /\ UNCHANGED <<serverVars, call, tool, codec>>


(***************************************************************************)
(* client.py: RetryConfig, A2AClient.send_task and _send_with_retry.       *)
(***************************************************************************)
\* RetryConfig defaults (seconds)
base_delay_seconds == 1
max_delay_seconds == 10
exponential_base == 2
\* strings are sequences of fragments; `re in error_msg` is contiguous containment
retryable_errors ==
    { <<"ServiceUnavailable">>, <<"ThrottlingException">>, <<"Timeout">>,
      <<"Connection", " ", "refused">>, <<"Connection", " ", "reset">> }

\* the agent_name of get_life_sync_client()
AgentName == "life-sync"

Contains(msg, pat) ==
    \E i \in 0..(Len(msg) - Len(pat)) : SubSeq(msg, i + 1, i + Len(pat)) = pat

\* any(re in error_msg for re in self.retry_config.retryable_errors)
IsRetryable(msg) == \E pat \in retryable_errors : Contains(msg, pat)

RECURSIVE Pow(_, _)
Pow(b, n) == IF n = 0 THEN 1 ELSE b * Pow(b, n - 1)
Min(a, b) == IF a <= b THEN a ELSE b
\* (mutation) the delay is not capped by max_delay_seconds
DelayUncapped(attempt) == base_delay_seconds * Pow(exponential_base, attempt)
\* min(base_delay_seconds * exponential_base ** attempt, max_delay_seconds)
Delay(attempt) == Min(base_delay_seconds * Pow(exponential_base, attempt), max_delay_seconds)

\* the "error" member of a response: each of code, message, data may be missing
RpcError(keys, code, message, data) ==
    [keys |-> keys, code |-> code, message |-> message, data |-> data]
NoRpcError == RpcError({}, 0, <<>>, <<>>)
RpcErrors ==
    { RpcError({"code", "message"}, TASK_NOT_FOUND, <<"Task not found: ", "X">>, <<>>),
      RpcError({"code", "message", "data"}, INTERNAL_ERROR,
               <<"ThrottlingException", ": rate exceeded">>, <<"d">>),
      RpcError({}, 0, <<>>, <<>>),
      RpcError({"code", "message", "data"}, METHOD_NOT_FOUND,
               <<"Connection", " ", "closed">>, <<"d">>),
      RpcError({"code", "message"}, INTERNAL_ERROR,
               <<"upstream: ", "Connection", " ", "refused">>, <<>>) }

\* error.get("message", "Unknown error"), error.get("code", INTERNAL_ERROR), error.get("data")
ErrorMsgOf(e) == IF "message" \in e.keys THEN e.message ELSE <<"Unknown error">>
ErrorCodeOf(e) == IF "code" \in e.keys THEN e.code ELSE INTERNAL_ERROR
ErrorDataOf(e) == IF "data" \in e.keys THEN e.data ELSE <<>>

\* how one _send_request ends: a decoded response (with or without "error"),
\* or an exception of the transport
Outcome(kind, hasError, error) == [kind |-> kind, hasError |-> hasError, error |-> error]
Raised(kind) == Outcome(kind, FALSE, NoRpcError)
\* raise_for_status, and a refused connection: the two kinds _send_with_retry catches
CaughtKinds == {"httpx.HTTPStatusError", "httpx.ConnectError"}
\* a timeout, a connection reset while reading, a failed invoke_agent_runtime,
\* a body that is not JSON
HttpKinds == CaughtKinds \cup {"httpx.ReadTimeout", "httpx.ReadError", "json.JSONDecodeError"}
AgentCoreKinds == {"botocore.ClientError", "json.JSONDecodeError"}
Outcomes(use_agentcore) ==
    {Outcome("response", FALSE, NoRpcError)}
      \cup {Outcome("response", TRUE, e) : e \in RpcErrors}
      \cup {Raised(k) : k \in IF use_agentcore THEN AgentCoreKinds ELSE HttpKinds}

AllOutcomes == Outcomes(TRUE) \cup Outcomes(FALSE)

\* how the attempt is classified in the history kept for the properties
ClassOf(o) ==
    IF o.kind # "response" THEN o.kind
    ELSE IF ~o.hasError THEN "ok"
    ELSE IF IsRetryable(ErrorMsgOf(o.error)) THEN "rpc-retryable" ELSE "rpc-other"

\* an exception leaving send_task
Exc(type, agentName, code, message, data) ==
    [type |-> type, agent |-> agentName, code |-> code, message |-> message, data |-> data]
A2AError(agentName, code, message, data) == Exc("A2AError", agentName, code, message, data)

NoCall == [pc |-> "idle", method |-> "", use_agentcore |-> FALSE, retry |-> TRUE, max_attempts |-> 0,
           attempts |-> 0, attempt |-> 0, calls |-> 0, hist |-> <<>>, sleeps |-> <<>>,
           outcome |-> Raised("none"), last_error |-> <<>>, result |-> <<>>, raised |-> <<>>]

\* the A2AError raised after the loop
Unavailable(c) ==
    A2AError(AgentName, AGENT_UNAVAILABLE,
             <<"Agent unavailable after ", c.attempts, " retries">>,
             c.last_error)

\* (mutation) the retry flag is ignored
AttemptsIgnoringRetry(retry, max_attempts) == max_attempts
\* attempts = self.retry_config.max_attempts if retry else 1
Attempts(retry, max_attempts) == IF retry THEN max_attempts ELSE 1

\* send_task(task_id, message, retry) on a client built with max_attempts
SendTask(use_agentcore, retry, max_attempts) ==
    /\ call.pc = "idle"
    /\ call' = [NoCall EXCEPT !.pc = "loop", !.method = "tasks/send",
                              !.use_agentcore = use_agentcore,
                              !.retry = retry, !.max_attempts = max_attempts,
                              !.attempts = Attempts(retry, max_attempts)]
    /\ UNCHANGED <<serverVars, stream, tool, codec>>

\* (mutation) the last attempt is taken for one that has a successor
MoreAttemptsOffByOne(c) == c.attempt < c.attempts
\* attempt < attempts - 1
MoreAttempts(c) == c.attempt < c.attempts - 1

GoSleep(c) == [c EXCEPT !.pc = "sleep", !.sleeps = Append(@, Delay(c.attempt))]
Raise(c, exc) == [c EXCEPT !.pc = "raised", !.raised = <<exc>>]

\* (mutation) every JSON-RPC error is retried while attempts remain
OnRpcErrorRetryAny(c, e) ==
    IF MoreAttempts(c)
    THEN GoSleep(c)
    ELSE Raise(c, A2AError(AgentName, ErrorCodeOf(e), ErrorMsgOf(e), ErrorDataOf(e)))
\* a JSON-RPC error in the response (lines 283-307)
OnRpcError(c, e) ==
    IF IsRetryable(ErrorMsgOf(e)) /\ MoreAttempts(c)
    THEN GoSleep(c)
    ELSE Raise(c, A2AError(AgentName, ErrorCodeOf(e), ErrorMsgOf(e), ErrorDataOf(e)))

\* except httpx.HTTPStatusError / except httpx.ConnectError (lines 311-331), and on
\* the last attempt the raise after the loop (lines 333-338)
OnCaught(c, kind) ==
    LET c1 == [c EXCEPT !.last_error = <<kind>>] IN
    IF MoreAttempts(c1) THEN GoSleep(c1) ELSE Raise(c1, Unavailable(c1))

\* any other exception has no handler and leaves _send_with_retry as it is
OnUncaught(c, kind) == Raise(c, Exc(kind, "", 0, <<>>, <<>>))

\* one iteration of the for loop, up to its return, raise or sleep
Attempt(o) ==
    /\ call.pc = "loop"
    /\ o \in Outcomes(call.use_agentcore)
    /\ LET c == [call EXCEPT !.calls = @ + 1, !.hist = Append(@, ClassOf(o)),
                             !.outcome = o] IN
       call' = IF o.kind = "response"
               THEN IF o.hasError THEN OnRpcError(c, o.error)
                    ELSE [c EXCEPT !.pc = "returned", !.result = <<o>>]
               ELSE IF o.kind \in CaughtKinds THEN OnCaught(c, o.kind)
               ELSE OnUncaught(c, o.kind)
    /\ UNCHANGED <<serverVars, stream, tool, codec>>

\* asyncio.sleep(delay) is over: continue with the next attempt
Backoff ==
    /\ call.pc = "sleep"
    /\ call' = [call EXCEPT !.pc = "loop", !.attempt = @ + 1]
    /\ UNCHANGED <<serverVars, stream, tool, codec>>

\* get_task / cancel_task: the request is built and handed to _send_request directly
SingleShot(method, use_agentcore) ==
    [NoCall EXCEPT !.pc = "request", !.method = method,
                   !.use_agentcore = use_agentcore, !.attempts = 1]

\* get_task(task_id)
GetTask(use_agentcore) ==
    /\ call.pc = "idle"
    /\ call' = SingleShot("tasks/get", use_agentcore)
    /\ UNCHANGED <<serverVars, stream, tool, codec>>

\* cancel_task(task_id)
CancelTask(use_agentcore) ==
    /\ call.pc = "idle"
    /\ call' = SingleShot("tasks/cancel", use_agentcore)
    /\ UNCHANGED <<serverVars, stream, tool, codec>>

\* (mutation) the two caught transport failures are retried after a delay
OnSingleRetried(c, o) ==
    IF o.kind = "response" THEN [c EXCEPT !.pc = "returned", !.result = <<o>>]
    ELSE IF o.kind \in CaughtKinds THEN GoSleep(c)
    ELSE Raise(c, Exc(o.kind, "", 0, <<>>, <<>>))
\* `return await self._send_request(request)`: the decoded response is returned as
\* it is, "error" member or not; whatever _send_request raises leaves the call
OnSingle(c, o) ==
    IF o.kind = "response" THEN [c EXCEPT !.pc = "returned", !.result = <<o>>]
    ELSE Raise(c, Exc(o.kind, "", 0, <<>>, <<>>))

\* the one _send_request of get_task / cancel_task ends
SingleRequest(o) ==
    /\ call.pc = "request"
    /\ o \in Outcomes(call.use_agentcore)
    /\ call' = OnSingle([call EXCEPT !.calls = @ + 1, !.hist = Append(@, ClassOf(o)),
                                     !.outcome = o], o)
    /\ UNCHANGED <<serverVars, stream, tool, codec>>

(***************************************************************************)
(* Specifications: the dispatcher, the streaming generator, the client.    *)
(***************************************************************************)
(***************************************************************************)
(* tools/a2a_tools.py: the tool-call adapters.  Each builds a message, runs   *)
(* make_call() (client.send_task on a client with the default RetryConfig)    *)
(* through the asyncio bridge and picks its value out of the response.        *)
(***************************************************************************)
\* RetryConfig.max_attempts
max_attempts == 3

\* the calling thread: no current event loop, a current loop that is not running,
\* a loop that is running (the adapter is called from a coroutine or callback)
LoopStates == {"none", "idle", "running"}

\* try: asyncio.get_event_loop().run_until_complete(make_call())
\* except RuntimeError: asyncio.run(make_call())
\*   no loop:      get_event_loop raises RuntimeError, asyncio.run drives the call
\*   idle loop:    run_until_complete drives the call
\*   running loop: run_until_complete raises RuntimeError ("This event loop is
\*                 already running"), and asyncio.run raises RuntimeError
\*                 ("cannot be called from a running event loop")
Bridge(loop) ==
    CASE loop = "none" -> "asyncio.run"
      [] loop = "idle" -> "run_until_complete"
      [] OTHER -> "RuntimeError"

\* the response send_task returns: without "result", with a task result that has
\* no data part of the adapter's kind, with one that has
ResponseShapes == {"no-result", "plain", "structured"}

\* the value the adapter returns (lines 178-188)
ToolValue(shape) ==
    CASE shape = "no-result" -> [keys |-> {"error"}, error |-> <<"No result from Life Sync Agent">>]
      [] shape = "plain" -> [keys |-> {"taskId", "status", "result"}, error |-> <<>>]
      [] OTHER -> [keys |-> {"analysis"}, error |-> <<>>]
NoValue == [keys |-> {}, error |-> <<>>]

NoTool == [pc |-> "idle", loop |-> "none", value |-> NoValue, exc |-> <<>>]

\* the adapter is called: the bridge either raises or starts make_call()
ToolInvoke(loop, use_agentcore) ==
    /\ tool.pc = "idle"
    /\ call.pc = "idle"
    /\ IF Bridge(loop) = "RuntimeError"
       THEN /\ tool' = [tool EXCEPT !.pc = "raised", !.loop = loop, !.exc = <<"RuntimeError">>]
            /\ call' = call
       ELSE /\ tool' = [tool EXCEPT !.pc = "running", !.loop = loop]
            /\ call' = [NoCall EXCEPT !.pc = "loop", !.method = "tasks/send",
                                      !.use_agentcore = use_agentcore,
                                      !.retry = TRUE, !.max_attempts = max_attempts,
                                      !.attempts = Attempts(TRUE, max_attempts)]
    /\ UNCHANGED <<serverVars, stream, codec>>

\* send_task returned: the adapter picks its value out of the response
ToolReturn(shape) ==
    /\ tool.pc = "running"
    /\ call.pc = "returned"
    /\ tool' = [tool EXCEPT !.pc = "returned", !.value = ToolValue(shape)]
    /\ UNCHANGED <<serverVars, stream, call, codec>>

\* what send_task raises is no RuntimeError: no except clause of the adapter takes it
ToolOnRaise(t, exc) == [t EXCEPT !.pc = "raised", !.exc = <<exc.type>>]

\* send_task raised
ToolRaise ==
    /\ tool.pc = "running"
    /\ call.pc = "raised"
    /\ tool' = ToolOnRaise(tool, call.raised[1])
    /\ UNCHANGED <<serverVars, stream, call, codec>>


(***************************************************************************)
(* types.py applied to one message: m.to_dict(), Message.from_dict of that  *)
(* dict, and m.get_text().                                                  *)
(***************************************************************************)
\* parts a Message is built from: text parts (one with the empty string), a data
\* part, a part of type "data" that also carries a text
PartValues ==
    { TextPart(<<"A">>), TextPart(<<"B">>), TextPart(<<>>), DataPart("d_plan"),
      MessagePart("data", Str(<<"C">>), "d_loc") }
CodecMessages ==
    { Message(role, parts) :
        role \in {"user", "assistant"},
        parts \in UNION { [1..n -> PartValues] : n \in 0..MaxParts } }

NoCodec == [pc |-> "none", m |-> Message("", <<>>), d |-> MessageToDict(Message("", <<>>)),
            back |-> Message("", <<>>), got |-> FALSE, raised |-> FALSE, text |-> <<>>]

\* d = m.to_dict()
ToDict ==
    /\ codec.pc = "built"
    /\ codec' = [codec EXCEPT !.pc = "dict", !.d = MessageToDict(codec.m)]
    /\ UNCHANGED <<serverVars, stream, call, tool>>

\* back = Message.from_dict(d)
FromDict ==
    /\ codec.pc = "dict"
    /\ codec' = [codec EXCEPT !.pc = "back", !.back = MessageFromDict(codec.d)]
    /\ UNCHANGED <<serverVars, stream, call, tool>>

\* text = m.get_text(), or the TypeError of str.join
GetTextCall ==
    /\ codec.pc # "none"
    /\ ~codec.got
    /\ codec' = [codec EXCEPT !.got = TRUE, !.raised = GetTextRaises(codec.m),
                               !.text = IF GetTextRaises(codec.m) THEN <<>>
                                        ELSE GetText(codec.m)]
    /\ UNCHANGED <<serverVars, stream, call, tool>>


Init ==
    /\ agent \in Agents
    /\ heap = [r \in Reqs |-> NoTask]
    /\ tasks = [id \in TaskIds |-> 0]
    /\ nreq = 0
    /\ pc = [r \in Reqs |-> "idle"]
    /\ rpcid = [r \in Reqs |-> ""]
    /\ alone = [r \in Reqs |-> TRUE]
    /\ last = NoResponse
    /\ stream = NoStream
    /\ call = NoCall
    /\ tool = NoTool
    /\ codec = NoCodec

Next ==
    \/ \E id \in TaskIds, m \in Messages, q \in RpcIds : HandleTaskSend(id, m, q)
    \/ \E r \in Reqs, out \in SkillOutputs : SkillReturns(r, out)
    \/ \E r \in Reqs, e \in SkillErrors : SkillRaises(r, e)
    \/ \E id \in TaskIds, q \in RpcIds : HandleTaskGet(id, q)
    \/ \E id \in TaskIds, q \in RpcIds : HandleTaskCancel(id, q)

Spec == Init /\ [][Next]_vars

\* root_post with every kind of body: the task methods, methods without a handler
\* and bodies that are no JSON-RPC request
RpcNext ==
    \/ \E id \in TaskIds, m \in Messages, q \in RpcIds : RootPostSend(id, m, q)
    \/ \E r \in Reqs, out \in SkillOutputs : SkillReturns(r, out)
    \/ \E r \in Reqs, e \in SkillErrors : SkillRaises(r, e)
    \/ \E id \in TaskIds, q \in RpcIds : HandleTaskGet(id, q)
    \/ \E id \in TaskIds, q \in RpcIds : HandleTaskCancel(id, q)
    \/ \E method \in Methods, q \in RpcIds : HandleRpcRequest(method, q)
    \/ \E body \in MalformedBodies, q \in RpcIds : RootPostMalformed(body, q)

RpcSpec == Init /\ [][RpcNext]_vars

StreamNext ==
    \/ \E wf \in BOOLEAN, id \in TaskIds, m \in Messages : StreamOpen(wf, id, m)
    \/ StreamFirstStatus
    \/ StreamSecondStatus
    \/ \E c \in Chunks : StreamChunk(c)
    \/ StreamResult
    \/ \E out \in SkillOutputs : StreamThirdStatus(out)
    \/ StreamAgentResult
    \/ \E e \in SkillErrors : StreamError(e)
    \/ \E id \in TaskIds, q \in RpcIds : HandleTaskGet(id, q)
    \/ \E id \in TaskIds, q \in RpcIds : HandleTaskCancel(id, q)

StreamSpec == Init /\ [][StreamNext]_vars

ClientNext ==
    \/ \E ac \in BOOLEAN, retry \in BOOLEAN, n \in 1..MaxAttemptsBound : SendTask(ac, retry, n)
    \/ \E o \in AllOutcomes : Attempt(o)
    \/ Backoff

ClientSpec == Init /\ [][ClientNext]_vars

\* the three operations of A2AClient
ClientOpsNext ==
    \/ \E ac \in BOOLEAN, retry \in BOOLEAN, n \in 1..MaxAttemptsBound : SendTask(ac, retry, n)
    \/ \E o \in AllOutcomes : Attempt(o)
    \/ Backoff
    \/ \E ac \in BOOLEAN : GetTask(ac)
    \/ \E ac \in BOOLEAN : CancelTask(ac)
    \/ \E o \in AllOutcomes : SingleRequest(o)

ClientOpsSpec == Init /\ [][ClientOpsNext]_vars


AdapterNext ==
    \/ \E loop \in LoopStates, ac \in BOOLEAN : ToolInvoke(loop, ac)
    \/ \E o \in AllOutcomes : Attempt(o)
    \/ Backoff
    \/ \E shape \in ResponseShapes : ToolReturn(shape)
    \/ ToolRaise

AdapterSpec == Init /\ [][AdapterNext]_vars

\* a Message has been built
TypesInit ==
    /\ agent \in Agents
    /\ heap = [r \in Reqs |-> NoTask]
    /\ tasks = [id \in TaskIds |-> 0]
    /\ nreq = 0
    /\ pc = [r \in Reqs |-> "idle"]
    /\ rpcid = [r \in Reqs |-> ""]
    /\ alone = [r \in Reqs |-> TRUE]
    /\ last = NoResponse
    /\ stream = NoStream
    /\ call = NoCall
    /\ tool = NoTool
    /\ codec \in {[NoCodec EXCEPT !.pc = "built", !.m = m] : m \in CodecMessages}

TypesNext ==
    \/ ToDict
    \/ FromDict
    \/ GetTextCall

TypesSpec == TypesInit /\ [][TypesNext]_vars


(***************************************************************************)
(* Properties of the dispatcher (Spec).                                    *)
(***************************************************************************)

\* C1: once the stored status of a task id is terminal, no later tasks/send
\* request with that id changes the stored status.
C1_TerminalSurvivesSend ==
    [][\A id \in TaskIds, m \in Messages, q \in RpcIds :
          (StatusOf(id) \in Terminal /\ HandleTaskSend(id, m, q))
              => StatusOf(id)' = StatusOf(id)]_vars

\* C2: tasks/cancel on a task whose stored status is completed or failed leaves
\* the stored status as it is.
C2_CancelKeepsTerminal ==
    [][\A id \in TaskIds, q \in RpcIds :
          (StatusOf(id) \in {COMPLETED, FAILED} /\ HandleTaskCancel(id, q))
              => StatusOf(id)' = StatusOf(id)]_vars

\* C3: a tasks/cancel handled while a tasks/send on the same id awaits the skill
\* leaves the stored status canceled, and the status is still canceled when the
\* skill call has finished, by returning or by raising.
C3_CancelSticksAcrossSkill ==
    [][\A r \in Reqs :
          pc[r] = "skill" =>
            /\ (\E q \in RpcIds : HandleTaskCancel(heap[r].id, q))
                  => StatusOf(heap[r].id)' = CANCELED
            /\ (/\ StatusOf(heap[r].id) = CANCELED
                /\ \/ \E out \in SkillOutputs : SkillReturns(r, out)
                   \/ \E e \in SkillErrors : SkillRaises(r, e))
                  => StatusOf(heap[r].id)' = CANCELED]_vars

\* C10: when the skill returns for a tasks/send on id X with no other request on X
\* in between, the stored task is completed with the Message of the response as
\* its result, and the response is a result {taskId, status: completed, result}
\* without an error.
C10_SendSuccess ==
    [][\A r \in Reqs, out \in SkillOutputs :
          (alone[r] /\ SkillReturns(r, out)) =>
            /\ StatusOf(heap[r].id)' = COMPLETED
            /\ ResultOf(heap[r].id)' # <<>>
            /\ last'.http = 200
            /\ ToDictKeys(last'.body) = {"jsonrpc", "id", "result"}
            /\ last'.body.result =
                 <<ResultDict(heap[r].id, COMPLETED, TRUE,
                              <<MessageToDict(ResultOf(heap[r].id)'[1])>>)>>]_vars

\* a lone tasks/send has just been answered with a result
C10_Witness ==
    /\ nreq = 1 /\ pc[1] = "done" /\ alone[1]
    /\ last.op = "tasks/send" /\ last.http = 200 /\ last.body.result # <<>>
    /\ StatusOf(heap[1].id) = COMPLETED

\* C11: when the skill raises during tasks/send on id X, the stored task X gets status
\* failed; the response is a JSON-RPC error with code INTERNAL_ERROR whose message
\* contains the exception's text and has no result; the other requests in flight are
\* left as they were, so the server keeps serving.
C11_SkillFailure ==
    [][\A r \in Reqs, e \in SkillErrors :
          SkillRaises(r, e) =>
            /\ StatusOf(heap[r].id)' = FAILED
            /\ last'.op = "tasks/send" /\ last'.taskId = heap[r].id
            /\ last'.http = 200
            /\ last'.body.id = rpcid[r]
            /\ ToDictKeys(last'.body) = {"jsonrpc", "id", "error"}
            /\ last'.body.result = <<>>
            /\ last'.body.error # <<>>
            /\ last'.body.error[1].code = INTERNAL_ERROR
            /\ Contains(last'.body.error[1].message, <<e>>)
            /\ \A r2 \in Reqs \ {r} : pc'[r2] = pc[r2]
            /\ nreq' = nreq]_vars

\* a tasks/send was answered with the error while another task is still awaiting its
\* skill, and the stored task is failed
C11_Witness ==
    /\ last.op = "tasks/send" /\ last.http = 200 /\ last.body.error # <<>>
    /\ StatusOf(last.taskId) = FAILED
    /\ \E r \in Reqs : pc[r] = "skill" /\ heap[r].id # last.taskId

\* C13: tasks/cancel for a known id whose stored status is working sets the stored
\* status to canceled and answers with the result {taskId, status: canceled}; a
\* tasks/get arriving in that state reports canceled.
C13_CancelWorking ==
    [][\A id \in TaskIds, q \in RpcIds :
          /\ (StatusOf(id) = WORKING /\ HandleTaskCancel(id, q)) =>
                /\ StatusOf(id)' = CANCELED
                /\ last' = HttpResponse("tasks/cancel", id, 200,
                               JsonRpcResponse(q, <<ResultDict(id, CANCELED, FALSE, <<>>)>>, <<>>))
                /\ ToDictKeys(last'.body) = {"jsonrpc", "id", "result"}
          /\ (StatusOf(id) = CANCELED /\ HandleTaskGet(id, q)) =>
                /\ last'.body.error = <<>>
                /\ last'.body.result # <<>>
                /\ last'.body.result[1].taskId = id
                /\ last'.body.result[1].status = CANCELED]_vars

\* a task still awaiting its skill was canceled and a tasks/get has reported canceled
C13_Witness ==
    /\ last.op = "tasks/get" /\ last.body.result # <<>>
    /\ last.body.result[1].status = CANCELED
    /\ tasks[last.taskId] # 0
    /\ pc[tasks[last.taskId]] = "skill"

\* C14: tasks/get changes no entry of the Task Store (ids, statuses, results), for a
\* known id or an unknown one, and for a known id answers with the stored
\* {taskId, status, result}.
C14_GetIsPure ==
    [][\A id \in TaskIds, q \in RpcIds :
          HandleTaskGet(id, q) =>
            /\ UNCHANGED <<tasks, heap>>
            /\ tasks[id] # 0 =>
                 /\ last'.body.error = <<>>
                 /\ last'.body.result =
                      <<ResultDict(id, StatusOf(id), TRUE,
                                   IF ResultOf(id) = <<>> THEN <<>>
                                   ELSE <<MessageToDict(ResultOf(id)[1])>>)>>]_vars

\* a tasks/get has reported a completed task with its result, and the task is stored
C14_Witness ==
    /\ last.op = "tasks/get" /\ last.body.result # <<>>
    /\ last.body.result[1].status = COMPLETED
    /\ last.body.result[1].result # <<>>
    /\ StatusOf(last.taskId) = COMPLETED

\* C15: tasks/get and tasks/cancel with an id that is not in the Task Store answer
\* with a JSON-RPC error of code TASK_NOT_FOUND and no result, and neither add the id
\* nor change a stored task.
C15_UnknownId ==
    [][\A id \in TaskIds, q \in RpcIds :
          (tasks[id] = 0 /\ (HandleTaskGet(id, q) \/ HandleTaskCancel(id, q))) =>
            /\ last'.body.id = q
            /\ ToDictKeys(last'.body) = {"jsonrpc", "id", "error"}
            /\ last'.body.result = <<>>
            /\ last'.body.error # <<>>
            /\ last'.body.error[1].code = TASK_NOT_FOUND
            /\ UNCHANGED <<tasks, heap>>]_vars

\* a tasks/cancel on an id that is not stored was refused while another task is stored
C15_Witness ==
    /\ last.op = "tasks/cancel" /\ last.body.error # <<>>
    /\ last.body.error[1].code = TASK_NOT_FOUND
    /\ tasks[last.taskId] = 0
    /\ \E id \in TaskIds : tasks[id] # 0

\* C26: every tasks/send request that stores a task leaves that task in a terminal
\* status (completed, failed, or canceled by a cancel) by the time its HTTP response
\* is produced, whatever the message's data parts hold.
C26_AnsweredIsTerminal ==
    \A r \in 1..nreq : pc[r] = "done" => heap[r].status \in Terminal

\* C28: in every state a concurrent request can observe, a task whose status is
\* completed has a result: the Task object of every request, the stored task of every
\* id, and what tasks/get has just reported.
C28_CompletedHasResult ==
    /\ \A r \in 1..nreq : heap[r].status = COMPLETED => heap[r].result # <<>>
    /\ \A id \in TaskIds : StatusOf(id) = COMPLETED => ResultOf(id) # <<>>
    /\ (last.op = "tasks/get" /\ last.body.result # <<>>
            /\ last.body.result[1].status = COMPLETED)
          => last.body.result[1].result # <<>>

\* one task is completed and stored with its result while another tasks/send is
\* suspended at its await
C28_Witness ==
    \E r1, r2 \in 1..nreq :
        /\ pc[r1] = "done" /\ heap[r1].status = COMPLETED /\ heap[r1].result # <<>>
        /\ tasks[heap[r1].id] = r1
        /\ pc[r2] = "skill" /\ heap[r2].result = <<>>

\* the request (or suspended tasks/send) that a step serves is about task id x
StepOn(x) ==
    \/ \E m \in Messages, q \in RpcIds : HandleTaskSend(x, m, q)
    \/ \E q \in RpcIds : HandleTaskGet(x, q)
    \/ \E q \in RpcIds : HandleTaskCancel(x, q)
    \/ \E r \in Reqs, out \in SkillOutputs : heap[r].id = x /\ SkillReturns(r, out)
    \/ \E r \in Reqs, e \in SkillErrors : heap[r].id = x /\ SkillRaises(r, e)

\* C29: under any interleaving, tasks/send, tasks/get, tasks/cancel on task id X and
\* the completion of an in-flight send for X never add, remove or change the stored
\* status or result of another task id Y.
C29_OtherIdsUntouched ==
    [][\A x \in TaskIds :
          StepOn(x) =>
            \A y \in TaskIds \ {x} :
                /\ (tasks'[y] = 0) = (tasks[y] = 0)
                /\ StatusOf(y)' = StatusOf(y)
                /\ ResultOf(y)' = ResultOf(y)]_vars

\* X has just been canceled while Y is stored as completed with its result
C29_Witness ==
    /\ last.op = "tasks/cancel" /\ last.taskId = "X" /\ last.body.result # <<>>
    /\ StatusOf("X") = CANCELED
    /\ StatusOf("Y") = COMPLETED /\ ResultOf("Y") # <<>>

(***************************************************************************)
(* Properties of the streaming generator (StreamSpec).                     *)
(***************************************************************************)
Phase(ev) == CASE ev.event = "task-status" -> 1
               [] ev.event = "task-chunk" -> 2
               [] OTHER -> 3
StreamEnded == stream.pc \in {"end", "crashed"}

\* C4: the events of an accepted tasks/sendSubscribe are task-status event(s), then
\* task-chunk events, then exactly one task-result or task-error, which is the last
\* event; no stream ends without it.
C4_StreamShape ==
    stream.wellFormed =>
        LET evs == stream.events IN
        /\ \A i, j \in 1..Len(evs) : i < j => Phase(evs[i]) <= Phase(evs[j])
        /\ Cardinality({i \in 1..Len(evs) : Phase(evs[i]) = 3}) <= 1
        /\ StreamEnded =>
             /\ Len(evs) > 0
             /\ evs[1].event = "task-status"
             /\ Phase(evs[Len(evs)]) = 3

RECURSIVE PayloadsOf(_)
\* the payloads of a sequence of events, one after the other
PayloadsOf(evs) ==
    IF Len(evs) = 0 THEN <<>>
    ELSE PayloadsOf(SubSeq(evs, 1, Len(evs) - 1)) \o evs[Len(evs)].payload

\* C22: when the life-sync skill yields the chunks c1..cn and finishes, the stream is
\* exactly task-status, task-status, one task-chunk per chunk in the order yielded,
\* and task-result with status completed whose text is c1..cn concatenated in order.
C22_ChunkedStream ==
    (/\ agent = "life-sync" /\ stream.pc = "end"
     /\ stream.events[Len(stream.events)].event = "task-result") =>
        LET evs == stream.events
            n == stream.nchunks
            chunks == SubSeq(evs, 3, n + 2) IN
        /\ Len(evs) = n + 3
        /\ evs[1].event = "task-status" /\ evs[2].event = "task-status"
        /\ \A i \in 1..n : chunks[i].event = "task-chunk" /\ chunks[i].taskId = stream.id
        /\ evs[n + 3] = Event("task-result", stream.id, COMPLETED, PayloadsOf(chunks))

\* the skill yielded "foo" then "bar" and the stream ended with the result "foobar"
C22_Witness ==
    /\ agent = "life-sync" /\ stream.pc = "end" /\ Len(stream.events) = 5
    /\ stream.events[3].payload = <<"foo">> /\ stream.events[4].payload = <<"bar">>
    /\ stream.events[5].event = "task-result"
    /\ stream.events[5].payload = <<"foo", "bar">>

\* C12: once a tasks/sendSubscribe request for id X has been received, tasks/get for
\* X answers with the task's status and not with a task-not-found error, and
\* tasks/cancel for X is accepted.
C12_StreamedTaskIsStored ==
    [][\A id \in TaskIds, q \in RpcIds :
          (/\ stream.pc # "closed" /\ stream.wellFormed /\ stream.id = id
           /\ (HandleTaskGet(id, q) \/ HandleTaskCancel(id, q))) =>
            /\ last'.body.error = <<>>
            /\ last'.body.result # <<>>]_vars

(***************************************************************************)
(* Properties of the client (ClientSpec).                                  *)
(***************************************************************************)
CallOver == call.pc \in {"returned", "raised"}
RaisedCode(code) ==
    /\ call.pc = "raised"
    /\ call.raised[1].type = "A2AError"
    /\ call.raised[1].code = code
HistAllIn(kinds) == \A i \in 1..Len(call.hist) : call.hist[i] \in kinds
LastAttempt == call.hist[Len(call.hist)]

\* C5: if every attempt fails with a connection failure, send_task makes exactly
\* max_attempts attempts (retry) or exactly one (no retry), and then raises the
\* A2AError with code AGENT_UNAVAILABLE.
C5_RetryTerminates ==
    (call.pc # "idle" /\ HistAllIn({"httpx.ConnectError"})) =>
        LET n == IF call.retry THEN call.max_attempts ELSE 1 IN
        /\ call.pc \in {"loop", "sleep"} => call.calls < n
        /\ CallOver => call.calls = n /\ RaisedCode(AGENT_UNAVAILABLE)

C5_Witness ==
    /\ call.retry /\ call.max_attempts = 3 /\ call.calls = 3
    /\ call.hist = <<"httpx.ConnectError", "httpx.ConnectError", "httpx.ConnectError">>
    /\ RaisedCode(AGENT_UNAVAILABLE)

\* C6: when send_task has used all its attempts, each ended by a transport failure
\* or a retryable JSON-RPC error, it raises the A2AError with code AGENT_UNAVAILABLE.
C6_ExhaustedIsUnavailable ==
    (/\ CallOver
     /\ call.calls = call.attempts
     /\ HistAllIn(CaughtKinds \cup {"rpc-retryable"}))
        => RaisedCode(AGENT_UNAVAILABLE)

\* C7: an attempt answered by a JSON-RPC error whose message has none of the
\* retryable substrings is the last attempt: send_task raises the A2AError with the
\* agent's name and the remote error's code, message and data.
C7_NonRetryableShortCircuits ==
    \A i \in 1..Len(call.hist) :
        call.hist[i] = "rpc-other" =>
            LET e == call.outcome.error IN
            /\ i = Len(call.hist) /\ call.calls = i
            /\ call.pc = "raised"
            /\ call.raised[1].type = "A2AError"
            /\ call.raised[1].agent = AgentName
            /\ "code" \in e.keys => call.raised[1].code = e.code
            /\ "message" \in e.keys => call.raised[1].message = e.message
            /\ "data" \in e.keys => call.raised[1].data = e.data

C7_Witness ==
    /\ call.retry /\ call.max_attempts = 3
    /\ call.hist = <<"rpc-other">> /\ call.calls = 1
    /\ call.outcome.error.keys = {"code", "message", "data"}
    /\ RaisedCode(METHOD_NOT_FOUND)

\* C8: whatever send_task raises is the A2AError.
C8_OnlyTypedError ==
    call.pc = "raised" => call.raised[1].type = "A2AError"

\* C9: a timeout of an attempt is followed by a backoff delay and another attempt
\* while attempts remain, and by the A2AError with code AGENT_UNAVAILABLE when none
\* remains.
C9_TimeoutIsRetried ==
    (Len(call.hist) > 0 /\ LastAttempt = "httpx.ReadTimeout") =>
        IF call.calls < call.attempts
        THEN call.pc \in {"sleep", "loop"}
        ELSE RaisedCode(AGENT_UNAVAILABLE)


\* C21: the delay awaited after failed attempt k (counted from zero) of send_task is
\* min(base_delay * exponential_base^k, max_delay), whether the attempt failed by a
\* transport failure or by a retryable JSON-RPC error, and so never exceeds max_delay.
C21_BackoffDelay ==
    \A i \in 1..Len(call.sleeps) :
        LET k == i - 1
            uncapped == base_delay_seconds * Pow(exponential_base, k) IN
        /\ call.hist[i] \in CaughtKinds \cup {"rpc-retryable"}
        /\ call.sleeps[i] = (IF uncapped < max_delay_seconds THEN uncapped ELSE max_delay_seconds)
        /\ call.sleeps[i] <= max_delay_seconds

\* five delays have been awaited, after transport failures and after a retryable
\* JSON-RPC error, and the fifth was cut down to max_delay_seconds
C21_Witness ==
    /\ call.sleeps = <<1, 2, 4, 8, 10>>
    /\ call.hist[1] = "rpc-retryable"
    /\ call.hist[5] = "httpx.ConnectError"

\* C23: get_task and cancel_task issue exactly one transport request per call and
\* never retry it, whether it ends in a response without error, a response with a
\* JSON-RPC error or a transport failure.
C23_SingleShot ==
    call.method \in {"tasks/get", "tasks/cancel"} =>
        /\ call.pc \in {"request", "returned", "raised"}
        /\ call.sleeps = <<>>
        /\ call.calls = (IF call.pc = "request" THEN 0 ELSE 1)
        /\ call.pc = "returned" => call.hist[1] \in {"ok", "rpc-retryable", "rpc-other"}
        /\ call.pc = "raised" => call.hist[1] \in HttpKinds \cup AgentCoreKinds

\* a cancel_task ended after one refused connection, a failure send_task would retry
C23_Witness ==
    /\ call.method = "tasks/cancel" /\ call.pc = "raised"
    /\ call.calls = 1 /\ call.hist = <<"httpx.ConnectError">>

\* C27: a send_task call that is over has exactly one outcome: it returned a response
\* without a JSON-RPC error, or it raised the A2AError; it never returned a response
\* carrying an error and never both returned and raised.
C27_ExactlyOneOutcome ==
    (call.method = "tasks/send" /\ CallOver) =>
        \/ /\ call.pc = "returned"
           /\ call.result # <<>> /\ ~call.result[1].hasError
           /\ call.raised = <<>>
        \/ /\ call.pc = "raised"
           /\ call.raised # <<>> /\ call.raised[1].type = "A2AError"
           /\ call.result = <<>>

\* C30: whatever the attempts' outcomes, one send_task call makes at most max_attempts
\* transport requests (at most 1 when retry is false), awaits a delay only between two
\* attempts and never after the last one, and makes no request after an attempt that
\* returned a response without an error.
C30_BoundedAttempts ==
    call.method = "tasks/send" =>
        LET limit == IF call.retry THEN call.max_attempts ELSE 1 IN
        /\ call.calls <= limit
        /\ call.pc \in {"loop", "sleep"} => (Len(call.sleeps) = call.calls /\ call.calls < limit)
        /\ CallOver => (call.calls >= 1 /\ Len(call.sleeps) = call.calls - 1)
        /\ \A i \in 1..Len(call.hist) :
              call.hist[i] = "ok" => (i = Len(call.hist) /\ call.pc = "returned")

\* after a retryable JSON-RPC error and a refused connection, each followed by a delay,
\* the third of six allowed attempts succeeded and the call returned
C30_Witness ==
    /\ call.retry /\ call.max_attempts = 6 /\ call.pc = "returned"
    /\ call.hist = <<"rpc-retryable", "httpx.ConnectError", "ok">>
    /\ call.sleeps = <<1, 2>>

(***************************************************************************)
(* Properties of root_post over every kind of body (RpcSpec).              *)
(***************************************************************************)

\* C16: a request whose method is none of tasks/send, tasks/get, tasks/cancel,
\* tasks/sendSubscribe is answered with a JSON-RPC error of code METHOD_NOT_FOUND,
\* with no result key, and leaves the Task Store unchanged.
C16_UnknownMethod ==
    [][\A method \in Methods, q \in RpcIds :
          HandleRpcRequest(method, q) =>
            /\ method \notin {"tasks/send", "tasks/get", "tasks/cancel", "tasks/sendSubscribe"}
            /\ last'.body.id = q
            /\ last'.body.error # <<>>
            /\ last'.body.error[1].code = METHOD_NOT_FOUND
            /\ Contains(last'.body.error[1].message, <<"Method not found: ">>)
            /\ "result" \notin ToDictKeys(last'.body)
            /\ UNCHANGED <<tasks, heap>>]_vars

\* an unknown method has been refused while a task is stored
C16_Witness ==
    /\ last.op = "unknown-method"
    /\ last.body.error # <<>> /\ last.body.error[1].code = METHOD_NOT_FOUND
    /\ \E id \in TaskIds : tasks[id] # 0

\* C17: every JSON-RPC response the server produces (tasks/send, tasks/get,
\* tasks/cancel, unknown method, malformed request) has exactly one of the keys
\* result and error.
C17_ResultXorError ==
    last.op \in {"tasks/send", "tasks/get", "tasks/cancel", "unknown-method", "malformed"} =>
        Cardinality(ToDictKeys(last.body) \cap {"result", "error"}) = 1

\* a malformed request has been answered with an error object and the id "unknown"
C17_Witness ==
    /\ last.op = "malformed" /\ last.body.id = "unknown"
    /\ ToDictKeys(last.body) = {"jsonrpc", "id", "error"}

\* C18: every malformed body (invalid JSON, a JSON value that is not an object, an
\* object without id or without method) is answered with HTTP 500 and a JSON-RPC error
\* of code INTERNAL_ERROR whose id is the request's id when the body has one and
\* "unknown" otherwise; no exception escapes and the Task Store is unchanged.
C18_MalformedIsAnswered ==
    [][\A body \in MalformedBodies, q \in RpcIds :
          RootPostMalformed(body, q) =>
            /\ last'.op # "unhandled"
            /\ last'.http = 500
            /\ last'.body.error # <<>>
            /\ last'.body.error[1].code = INTERNAL_ERROR
            /\ last'.body.id = (IF body = "no-method" THEN q ELSE "unknown")
            /\ UNCHANGED <<tasks, heap>>]_vars

(***************************************************************************)
(* Properties of the tool-call adapters (AdapterSpec).                     *)
(***************************************************************************)
ToolOver == tool.pc \in {"returned", "raised"}

\* C19: when send_task raises the A2AError inside an adapter, the adapter returns a
\* structured {error: <message>} value and does not raise.
C19_TypedErrorBecomesValue ==
    (ToolOver /\ call.pc = "raised" /\ call.raised[1].type = "A2AError") =>
        /\ tool.pc = "returned"
        /\ tool.value.keys = {"error"}
        /\ tool.value.error = call.raised[1].message

\* C20: with no event loop in the calling context and with a loop already running,
\* the adapter drives send_task to its end and the bridging itself does not raise.
C20_BridgeInBothSituations ==
    (ToolOver /\ tool.loop \in {"none", "running"}) =>
        /\ call.pc \in {"returned", "raised"}
        /\ tool.pc = "returned" => call.pc = "returned"
        /\ tool.exc # <<"RuntimeError">>

(***************************************************************************)
(* Properties of the message types (TypesSpec).                            *)
(***************************************************************************)

\* C24: for every Message built from text parts and data parts,
\* Message.from_dict(m.to_dict()) equals m in role, in the number and order of the
\* parts and in the type, text and data of each part.
C24_RoundTrip ==
    codec.pc = "back" =>
        /\ codec.back.role = codec.m.role
        /\ Len(codec.back.parts) = Len(codec.m.parts)
        /\ \A i \in 1..Len(codec.m.parts) :
              /\ codec.back.parts[i].type = codec.m.parts[i].type
              /\ codec.back.parts[i].text = codec.m.parts[i].text
              /\ codec.back.parts[i].data = codec.m.parts[i].data

\* a message with an empty text, a data part and a text has gone through its dict,
\* in which the data part has no "text" key, and come back
C24_Witness ==
    /\ codec.pc = "back"
    /\ codec.m.parts = <<TextPart(<<>>), DataPart("d_plan"), TextPart(<<"B">>)>>
    /\ codec.d.parts[1].keys = {"type", "text"}
    /\ codec.d.parts[2].keys = {"type", "data"}
    /\ codec.back = codec.m

RECURSIVE SpaceJoined(_, _, _)
\* the texts of the parts 1..n whose index is in keep, a single space between two
\* consecutive ones
SpaceJoined(parts, keep, n) ==
    IF n = 0 THEN [any |-> FALSE, v |-> <<>>]
    ELSE LET r == SpaceJoined(parts, keep, n - 1) IN
         IF n \notin keep THEN r
         ELSE [any |-> TRUE,
               v |-> IF r.any THEN r.v \o <<" ">> \o parts[n].text.v ELSE parts[n].text.v]

====
